---- MODULE Spec2Model ----
(***************************************************************************)
(* Model of csv_converter.py: load accounting.csv and account_mapping.csv, *)
(* enrich every accounting row with an account number (prompting the       *)
(* operator for unknown customers and rewriting account_mapping.csv after  *)
(* every answer), then write the billing CSV.                              *)
(*                                                                         *)
(* Text is a sequence of symbols.  The four symbols the csv dialect and    *)
(* the text layer of open() treat specially (quote, comma, CR, LF) are     *)
(* single characters; every other symbol stands for a run of ordinary      *)
(* characters ("Customer ID", "ACC-1", "7").  Files are modelled with the  *)
(* POSIX line separator.                                                   *)
(***************************************************************************)
EXTENDS Integers, Sequences, FiniteSets, TLC

\* ------------------------------------------------------------------------
\* Bounds of the model
\* ------------------------------------------------------------------------
MaxRows == 3
MaxMapRows == 2
NumSeeds == 2

\* ------------------------------------------------------------------------
\* Characters of the csv dialect and of the text layer
\* ------------------------------------------------------------------------
QUOTE == "\""
COMMA == ","
CR == "\r"
LF == "\n"
BOM == "<U+FEFF>"
OS_LINESEP == <<LF>>
NoneVal == <<"<None>">>

Range(s) == {s[i] : i \in 1..Len(s)}

\* ------------------------------------------------------------------------
\* Module constants of csv_converter.py
\* ------------------------------------------------------------------------
\* The three header collections are Python sets.  Each is given here in the
\* order of its literal; set_iter below is the order a process iterates it in.
SOURCE_HEADERS ==
    << <<"No">>, <<"Customer ID">>, <<"Company Name">>, <<"Flat Charge">>,
       <<"Current Volume">>, <<"Current Amount">>, <<"YTD Volume">>,
       <<"YTD Amount">> >>
MAPPING_HEADERS == << <<"Customer ID">>, <<"Company Name">>, <<"Account Number">> >>
ACCOUNT_KEY == <<"Customer ID">>
COMPANY_NAME == <<"Company Name">>
ACCOUNT_NUMBER == <<"Account Number">>
FIELD_NAME_CHANGE == <<"SOURCE_FIELD_NAME">> :> <<"DESTINATION_FIELD_NAME">>
BILLING_HEADERS ==
    << <<"No">>, <<"Customer ID">>, <<"Company Name">>, <<"Account Number">>,
       <<"Flat Charge">>, <<"Current Volume">>, <<"Current Amount">>,
       <<"YTD Volume">>, <<"YTD Amount">> >>
DEFAULT_DEST_CSV_FILENAME_PREFIX == <<"billing_">>
DEFAULT_DEST_CSV_FILENAME ==
    DEFAULT_DEST_CSV_FILENAME_PREFIX \o
    <<"Y", "Y", "Y", "Y", "M", "M", "D", "D", "_", "H", "H", "M", "M", ".csv">>

\* ------------------------------------------------------------------------
\* Python dict: insertion-ordered mapping
\* ------------------------------------------------------------------------
EmptyDict == [keys |-> <<>>, val |-> <<>>]
DictHas(d, k) == k \in DOMAIN d.val
\* Faulty variant of DictSet: an existing key keeps its first value.
DictSetKeepFirst(d, k, v) ==
    IF k \in DOMAIN d.val
    THEN d
    ELSE [keys |-> Append(d.keys, k), val |-> d.val @@ (k :> v)]
\* d[k] = v
DictSet(d, k, v) ==
    IF k \in DOMAIN d.val
    THEN [d EXCEPT !.val[k] = v]
    ELSE [keys |-> Append(d.keys, k), val |-> d.val @@ (k :> v)]
DictValues(d) == [i \in 1..Len(d.keys) |-> d.val[d.keys[i]]]

\* ------------------------------------------------------------------------
\* open(filename, 'w') / open(filename, encoding='utf-8-sig'): text layer
\* ------------------------------------------------------------------------
\* Writing: every LF becomes os.linesep.
RECURSIVE TextWrite(_)
TextWrite(s) ==
    IF s = <<>> THEN <<>>
    ELSE IF Len(s) = 1 THEN (IF s[1] = LF THEN OS_LINESEP ELSE s)
    ELSE LET h == Len(s) \div 2
         IN  TextWrite(SubSeq(s, 1, h)) \o TextWrite(SubSeq(s, h + 1, Len(s)))

\* Reading with newline=None: CR LF and a lone CR both become LF.
UniversalNewlines(s) ==
    LET kept == SelectSeq([i \in 1..Len(s) |-> i],
                          LAMBDA i : ~(s[i] = LF /\ i > 1 /\ s[i - 1] = CR))
    IN  [k \in 1..Len(kept) |-> IF s[kept[k]] = CR THEN LF ELSE s[kept[k]]]

\* Reading with encoding='utf-8-sig': a leading byte-order mark is dropped.
TextRead(s) ==
    UniversalNewlines(IF s # <<>> /\ Head(s) = BOM THEN Tail(s) ELSE s)

\* ------------------------------------------------------------------------
\* csv.DictWriter(quoting=QUOTE_ALL, lineterminator='\r\n', delimiter=',')
\* ------------------------------------------------------------------------
RECURSIVE EscapeQuotes(_)
EscapeQuotes(t) ==
    IF t = <<>> THEN <<>>
    ELSE (IF Head(t) = QUOTE THEN <<QUOTE, QUOTE>> ELSE <<Head(t)>>)
         \o EscapeQuotes(Tail(t))

QuoteField(t) == <<QUOTE>> \o EscapeQuotes(t) \o <<QUOTE>>

RECURSIVE JoinFields(_)
JoinFields(fs) ==
    IF fs = <<>> THEN <<>>
    ELSE IF Len(fs) = 1 THEN fs[1]
    ELSE fs[1] \o <<COMMA>> \o JoinFields(Tail(fs))

\* A row dict with a key outside fieldnames makes DictWriter raise
\* ValueError; the rows of the model never have one (their keys come from
\* well-formed headers), so that branch is left out.
dict_to_list(fieldnames, rowdict) ==
    [i \in 1..Len(fieldnames) |->
        IF fieldnames[i] \in DOMAIN rowdict THEN rowdict[fieldnames[i]] ELSE <<>>]

writerow(fieldnames, rowdict) ==
    LET fields == dict_to_list(fieldnames, rowdict)
    IN  TextWrite(JoinFields([i \in 1..Len(fields) |-> QuoteField(fields[i])])
                  \o <<CR, LF>>)

writeheader(fieldnames) ==
    writerow(fieldnames, [f \in Range(fieldnames) |-> f])

RECURSIVE writerows(_, _)
writerows(fieldnames, dataset) ==
    IF dataset = <<>> THEN <<>>
    ELSE writerow(fieldnames, Head(dataset)) \o writerows(fieldnames, Tail(dataset))

\* The whole of write_csv: the content of the file once it is closed.
write_csv(fieldnames, dataset) ==
    writeheader(fieldnames) \o writerows(fieldnames, dataset)

\* ------------------------------------------------------------------------
\* csv.reader: the parser's state machine.  A line break is CR, LF or CR LF.
\* ------------------------------------------------------------------------
IsBreak(c) == c \in {CR, LF}
AfterBreak(s, i) ==
    IF s[i] = CR /\ i < Len(s) /\ s[i + 1] = LF THEN i + 2 ELSE i + 1

\* One field from position i on, in parser state st: the field's text, the
\* position after it, and what ended it.
RECURSIVE parse_field(_, _, _, _)
parse_field(s, i, st, field) ==
    IF i > Len(s) THEN [field |-> field, next |-> i, end |-> "record"]
    ELSE
      LET c == s[i]
          done(how, k) == [field |-> field, next |-> k, end |-> how]
      IN  CASE st = "START_FIELD" ->
                 IF IsBreak(c) THEN done("record", AfterBreak(s, i))
                 ELSE IF c = QUOTE THEN parse_field(s, i + 1, "IN_QUOTED_FIELD", field)
                 ELSE IF c = COMMA THEN done("field", i + 1)
                 ELSE parse_field(s, i + 1, "IN_FIELD", Append(field, c))
            [] st = "IN_FIELD" ->
                 IF IsBreak(c) THEN done("record", AfterBreak(s, i))
                 ELSE IF c = COMMA THEN done("field", i + 1)
                 ELSE parse_field(s, i + 1, "IN_FIELD", Append(field, c))
            [] st = "IN_QUOTED_FIELD" ->
                 IF c = QUOTE THEN parse_field(s, i + 1, "QUOTE_IN_QUOTED_FIELD", field)
                 ELSE parse_field(s, i + 1, "IN_QUOTED_FIELD", Append(field, c))
            [] OTHER -> \* QUOTE_IN_QUOTED_FIELD
                 IF c = QUOTE THEN parse_field(s, i + 1, "IN_QUOTED_FIELD", Append(field, QUOTE))
                 ELSE IF c = COMMA THEN done("field", i + 1)
                 ELSE IF IsBreak(c) THEN done("record", AfterBreak(s, i))
                 ELSE parse_field(s, i + 1, "IN_FIELD", Append(field, c))

\* One record from position i on (START_RECORD): an empty line is the
\* record [].
RECURSIVE parse_fields(_, _, _)
parse_fields(s, i, row) ==
    LET f == parse_field(s, i, "START_FIELD", <<>>)
    IN  IF f.end = "field" THEN parse_fields(s, f.next, Append(row, f.field))
        ELSE [row |-> Append(row, f.field), next |-> f.next]

parse_record(s, i) ==
    IF IsBreak(s[i]) THEN [row |-> <<>>, next |-> AfterBreak(s, i)]
    ELSE parse_fields(s, i, <<>>)

RECURSIVE csv_reader(_, _, _)
csv_reader(s, i, rows) ==
    IF i > Len(s) THEN rows
    ELSE LET r == parse_record(s, i)
         IN  csv_reader(s, r.next, Append(rows, r.row))

csv_parse(s) == csv_reader(s, 1, <<>>)

\* dict(zip(fieldnames, row)), short rows filled with restval (None).  Rows
\* longer than the header (restkey) do not occur in the files of the model.
zip(fieldnames, row) ==
    [k \in Range(fieldnames) |->
        LET j == CHOOSE n \in 1..Len(fieldnames) :
                   /\ fieldnames[n] = k
                   /\ \A m \in 1..Len(fieldnames) : fieldnames[m] = k => m <= n
        IN  IF j <= Len(row) THEN row[j] ELSE NoneVal]

\* csv.DictReader: the first row names the fields, empty rows are skipped
DictReader(rows) ==
    IF rows = <<>> THEN <<>>
    ELSE LET fieldnames == Head(rows)
             body == SelectSeq(Tail(rows), LAMBDA r : r # <<>>)
         IN  [n \in 1..Len(body) |-> zip(fieldnames, body[n])]

\* The loop of load_csv with load_as_dict: dataset[row[ACCOUNT_KEY]] = row
RECURSIVE load_rows(_, _, _)
load_rows(rows, n, dataset) ==
    IF n > Len(rows) THEN dataset
    ELSE load_rows(rows, n + 1, DictSet(dataset, rows[n][ACCOUNT_KEY], rows[n]))

\* Faulty variant of load_list: every row is put in front of the earlier ones.
RECURSIVE load_list_prepending(_, _, _)
load_list_prepending(rows, n, dataset) ==
    IF n > Len(rows) THEN dataset
    ELSE load_list_prepending(rows, n + 1, <<rows[n]>> \o dataset)
\* The loop of load_csv without load_as_dict: dataset.append(row)
RECURSIVE load_list(_, _, _)
load_list(rows, n, dataset) ==
    IF n > Len(rows) THEN dataset
    ELSE load_list(rows, n + 1, Append(dataset, rows[n]))

\* load_csv(filename, headers, load_as_dict): content is the file's content
load_csv(content, load_as_dict) ==
    LET rows == DictReader(csv_parse(TextRead(content)))
    IN  IF load_as_dict THEN load_rows(rows, 1, EmptyDict)
        ELSE load_list(rows, 1, <<>>)


\* ------------------------------------------------------------------------
\* The order in which a process iterates a set of strings.  It depends on
\* the string hashes, which CPython salts per process; within one process
\* it is the same every time.  Seed 1 gives the order of the literal, every
\* further seed another rotation of it.
\* ------------------------------------------------------------------------
Seeds == 1..NumSeeds
set_iter(headers, seed) ==
    [i \in 1..Len(headers) |-> headers[((i + seed - 2) % Len(headers)) + 1]]

\* ------------------------------------------------------------------------
\* datetime.now().strftime("%Y%m%d_%H%M")
\* ------------------------------------------------------------------------
DigitOf(n) == <<"0", "1", "2", "3", "4", "5", "6", "7", "8", "9">>[n + 1]
\* Faulty variant of Pad2: no leading zero.
Pad2Unpadded(n) == IF n < 10 THEN <<DigitOf(n)>> ELSE <<DigitOf(n \div 10), DigitOf(n % 10)>>
Pad2(n) == <<DigitOf((n \div 10) % 10), DigitOf(n % 10)>>
Pad4(n) == Pad2(n \div 100) \o Pad2(n % 100)
strftime(t) ==
    Pad4(t.year) \o Pad2(t.month) \o Pad2(t.day) \o <<"_">> \o
    Pad2(t.hour) \o Pad2(t.minute)

\* write_billing_csv: the name of the destination file
billing_filename(user_filename, t) ==
    IF user_filename = DEFAULT_DEST_CSV_FILENAME
    THEN DEFAULT_DEST_CSV_FILENAME_PREFIX \o strftime(t) \o <<".csv">>
    ELSE user_filename

\* ------------------------------------------------------------------------
\* convert_formats: the pieces of one iteration
\* ------------------------------------------------------------------------
\* Faulty variant of key_missing: the table is never consulted.
key_missing_always(row, mapping_data) == TRUE
key_missing(row, mapping_data) == ~DictHas(mapping_data, row[ACCOUNT_KEY])

with_account(row, text) ==
    [k \in DOMAIN row \cup {ACCOUNT_NUMBER} |->
        IF k = ACCOUNT_NUMBER THEN text ELSE row[k]]

\* Faulty variant of new_entry: the identifier is stored as the account number.
new_entry_with_id(row) ==
    (ACCOUNT_KEY :> row[ACCOUNT_KEY]) @@ (COMPANY_NAME :> row[COMPANY_NAME])
    @@ (ACCOUNT_NUMBER :> row[ACCOUNT_KEY])
new_entry(row) ==
    (ACCOUNT_KEY :> row[ACCOUNT_KEY]) @@ (COMPANY_NAME :> row[COMPANY_NAME])
    @@ (ACCOUNT_NUMBER :> row[ACCOUNT_NUMBER])

\* Faulty variant of lookup_account: the stored company name is copied.
lookup_account_name(row, mapping_data) ==
    with_account(row, mapping_data.val[row[ACCOUNT_KEY]][COMPANY_NAME])
lookup_account(row, mapping_data) ==
    with_account(row, mapping_data.val[row[ACCOUNT_KEY]][ACCOUNT_NUMBER])

rename_field(row, source_field, dest_field) ==
    IF source_field \in DOMAIN row
    THEN [k \in (DOMAIN row \ {source_field}) \cup {dest_field} |->
            IF k = dest_field THEN row[source_field] ELSE row[k]]
    ELSE row

RECURSIVE rename_fields(_, _)
rename_fields(row, todo) ==
    IF todo = {} THEN row
    ELSE LET s == CHOOSE x \in todo : TRUE
         IN  rename_fields(rename_field(row, s, FIELD_NAME_CHANGE[s]), todo \ {s})

\* ------------------------------------------------------------------------
\* Inputs of the model
\* ------------------------------------------------------------------------
Ids == {<<"C1">>, <<"C2">>}
CompanyOf(id) ==
    IF id = <<"C1">> THEN <<"Acme">> ELSE <<"Bolt", COMMA, QUOTE, "Co", QUOTE>>

SourceRow(n, id) ==
    (<<"No">> :> <<DigitOf(n)>>) @@ (ACCOUNT_KEY :> id)
    @@ (COMPANY_NAME :> CompanyOf(id)) @@ (<<"Flat Charge">> :> <<"10">>)
    @@ (<<"Current Volume">> :> <<"5">>) @@ (<<"Current Amount">> :> <<"50">>)
    @@ (<<"YTD Volume">> :> <<"20">>) @@ (<<"YTD Amount">> :> <<"200">>)

SeqsUpTo(S, n) == UNION {[1..m -> S] : m \in 0..n}

SourceDatasets ==
    {[n \in 1..Len(ids) |-> SourceRow(n, ids[n])] : ids \in SeqsUpTo(Ids, MaxRows)}

MappingRow(id, text) ==
    (ACCOUNT_KEY :> id) @@ (COMPANY_NAME :> CompanyOf(id)) @@ (ACCOUNT_NUMBER :> text)

StoredAccount(n) == <<<<"A1">>, <<"A2">>, <<"A3">>, <<"A4">>>>[n]

\* The mapping file a run starts with: none, or one written by earlier runs
\* or by hand (so that an identifier may occur twice).
NoFile == [exists |-> FALSE, data |-> <<>>]
File(content) == [exists |-> TRUE, data |-> content]
InitialMappingFiles ==
    {NoFile} \cup
    {File(write_csv(set_iter(MAPPING_HEADERS, seed),
                    [n \in 1..Len(ids) |-> MappingRow(ids[n], StoredAccount(n))])) :
        ids \in SeqsUpTo(Ids, MaxMapRows), seed \in Seeds}

\* accounting.csv as the accounting system exports it, with or without a
\* byte-order mark
SourceFiles ==
    {File(mark \o write_csv(SOURCE_HEADERS, rows)) :
        rows \in SourceDatasets, mark \in {<<>>, <<BOM>>}}

\* What the operator types at the prompt
Inputs == {<<>>, <<"ACC-1">>, <<"7", QUOTE, COMMA, CR>>}

UserFilenames == {DEFAULT_DEST_CSV_FILENAME, <<"out.csv">>}
Clocks ==
    {[year |-> 2024, month |-> 3, day |-> 5, hour |-> 14, minute |-> 7],
     [year |-> 2031, month |-> 12, day |-> 30, hour |-> 9, minute |-> 58]}
NoClock == [year |-> 0, month |-> 0, day |-> 0, hour |-> 0, minute |-> 0]

\* Datasets for the write_csv / load_csv round trip
RTRows ==
    {MappingRow(id, text) : id \in Ids, text \in {<<"A1">>, <<>>}}
    \cup {(ACCOUNT_KEY :> <<"C1">>) @@ (COMPANY_NAME :> name) @@ (ACCOUNT_NUMBER :> <<"A2">>) :
            name \in {<<"A", LF, "B">>, <<"A", CR, "B">>, <<QUOTE, COMMA>>}}
RTDatasets == SeqsUpTo(RTRows, MaxMapRows)

\* ------------------------------------------------------------------------
\* State
\* ------------------------------------------------------------------------
VARIABLES
    pc,               \* where the process is
    run,              \* 1 for the first invocation, 2 for the second
    hashseed,         \* the string-hash salt of the running process
    source_file,      \* accounting.csv
    mapping_file,     \* account_mapping.csv
    dest_file,        \* the billing file this invocation wrote
    dest_filename,    \* its name
    user_filename,    \* args.dest_csv_filename
    timestamp,        \* datetime.now() in write_billing_csv
    this_months_data, \* the accounting rows (accounting_data)
    account_mapping,  \* the mapping table (mapping_data)
    line_count,       \* convert_formats' line_count
    written,          \* rows writerows has written so far
    prompts,          \* history: calls of prompt_user_for_account
    rewrites,         \* history: completed write_csv calls on the mapping file
    dest_writes,      \* history: completed write_csv calls on the billing file
    loaded,           \* history: the mapping table as load_csv returned it
    persisted,        \* history: identifiers whose rewrite has completed
    first_dest,       \* history: content of the first invocation's billing file
    first_prompts,    \* history: prompts of the first invocation
    rt_input          \* the dataset handed to write_csv in the round trip

vars ==
    <<pc, run, hashseed, source_file, mapping_file, dest_file, dest_filename,
      user_filename, timestamp, this_months_data, account_mapping, line_count,
      written, prompts, rewrites, dest_writes, loaded, persisted, first_dest,
      first_prompts, rt_input>>

process == <<this_months_data, account_mapping, line_count, written>>
billing == <<dest_file, dest_filename, user_filename, timestamp, dest_writes>>
history == <<prompts, rewrites, loaded, persisted>>
earlier == <<run, hashseed, first_dest, first_prompts, rt_input>>

Fresh ==
    /\ run = 1
    /\ hashseed \in Seeds
    /\ dest_file = NoFile
    /\ dest_filename = <<>>
    /\ user_filename = <<>>
    /\ timestamp = NoClock
    /\ this_months_data = <<>>
    /\ account_mapping = EmptyDict
    /\ line_count = 0
    /\ written = 0
    /\ prompts = 0
    /\ rewrites = 0
    /\ dest_writes = 0
    /\ loaded = EmptyDict
    /\ persisted = {}
    /\ first_dest = <<>>
    /\ first_prompts = 0

Init ==
    /\ pc = "start"
    /\ Fresh
    /\ source_file \in SourceFiles
    /\ mapping_file \in InitialMappingFiles
    /\ rt_input = <<>>

\* ------------------------------------------------------------------------
\* __main__
\* ------------------------------------------------------------------------
LoadSource ==
    /\ pc = "start"
    /\ this_months_data' = load_csv(source_file.data, FALSE)
    /\ pc' = "mapping"
    /\ UNCHANGED <<source_file, mapping_file, account_mapping, line_count, written>>
    /\ UNCHANGED <<billing, history, earlier>>

CreateMapping ==
    /\ pc = "mapping"
    /\ ~mapping_file.exists
    /\ mapping_file' = File(<<>>)
    /\ UNCHANGED <<pc, source_file, process, billing, history, earlier>>

LoadMapping ==
    /\ pc = "mapping"
    /\ mapping_file.exists
    /\ account_mapping' = load_csv(mapping_file.data, TRUE)
    /\ loaded' = account_mapping'
    /\ pc' = "loop"
    /\ UNCHANGED <<source_file, mapping_file, this_months_data, line_count, written>>
    /\ UNCHANGED <<billing, prompts, rewrites, persisted, earlier>>

\* ------------------------------------------------------------------------
\* convert_formats
\* ------------------------------------------------------------------------
\* The else branch: the identifier is in the table.
ConvertKnown ==
    /\ pc = "loop"
    /\ line_count < Len(this_months_data)
    /\ LET n == line_count + 1
           row == this_months_data[n]
       IN  /\ ~key_missing(row, account_mapping)
           /\ this_months_data' =
                [this_months_data EXCEPT
                    ![n] = rename_fields(lookup_account(row, account_mapping),
                                         DOMAIN FIELD_NAME_CHANGE)]
           /\ line_count' = n
    /\ UNCHANGED <<pc, source_file, mapping_file, account_mapping, written>>
    /\ UNCHANGED <<billing, history, earlier>>

\* The if branch up to the call of write_csv: prompt, set the row's account
\* number, add the entry to the table.
ConvertPrompt ==
    /\ pc = "loop"
    /\ line_count < Len(this_months_data)
    /\ LET n == line_count + 1
           row == this_months_data[n]
       IN  /\ key_missing(row, account_mapping)
           /\ \E text \in Inputs :
                LET answered == with_account(row, text)
                IN  /\ this_months_data' = [this_months_data EXCEPT ![n] = answered]
                    /\ account_mapping' =
                         DictSet(account_mapping, row[ACCOUNT_KEY], new_entry(answered))
           /\ line_count' = n
    /\ prompts' = prompts + 1
    /\ pc' = "map_open"
    /\ UNCHANGED <<source_file, mapping_file, written>>
    /\ UNCHANGED <<billing, rewrites, loaded, persisted, earlier>>

\* write_csv(DEFAULT_MAPPING_CSV_FILENAME, ...): open(filename, 'w') truncates
MapOpen ==
    /\ pc = "map_open"
    /\ mapping_file' = File(<<>>)
    /\ pc' = "map_header"
    /\ UNCHANGED <<source_file, process, billing, history, earlier>>

MapHeader ==
    /\ pc = "map_header"
    /\ mapping_file' =
         File(mapping_file.data \o writeheader(set_iter(MAPPING_HEADERS, hashseed)))
    /\ written' = 0
    /\ pc' = "map_rows"
    /\ UNCHANGED <<source_file, this_months_data, account_mapping, line_count>>
    /\ UNCHANGED <<billing, history, earlier>>

MapRow ==
    /\ pc = "map_rows"
    /\ written < Len(account_mapping.keys)
    /\ mapping_file' =
         File(mapping_file.data \o
              writerow(set_iter(MAPPING_HEADERS, hashseed),
                       DictValues(account_mapping)[written + 1]))
    /\ written' = written + 1
    /\ UNCHANGED <<pc, source_file, this_months_data, account_mapping, line_count>>
    /\ UNCHANGED <<billing, history, earlier>>

\* The file is closed, write_csv returns, and the iteration ends with the
\* renaming of the row's fields.
MapClose ==
    /\ pc = "map_rows"
    /\ written = Len(account_mapping.keys)
    /\ rewrites' = rewrites + 1
    /\ persisted' = persisted \cup {this_months_data[line_count][ACCOUNT_KEY]}
    /\ this_months_data' =
         [this_months_data EXCEPT
             ![line_count] = rename_fields(@, DOMAIN FIELD_NAME_CHANGE)]
    /\ pc' = "loop"
    /\ UNCHANGED <<source_file, mapping_file, account_mapping, line_count, written>>
    /\ UNCHANGED <<billing, prompts, loaded, earlier>>

\* open() raises OSError: the file is left as it was
MapOpenFails ==
    /\ pc = "map_open"
    /\ pc' = "failed"
    /\ UNCHANGED <<source_file, mapping_file, process, billing, history, earlier>>

\* a write or the closing flush raises OSError: the file is already truncated
MapWriteFails ==
    /\ pc \in {"map_header", "map_rows"}
    /\ pc' = "failed"
    /\ UNCHANGED <<source_file, mapping_file, process, billing, history, earlier>>

\* ------------------------------------------------------------------------
\* write_billing_csv
\* ------------------------------------------------------------------------
\* The whole of write_billing_csv, as one step.  args.dest_csv_filename is
\* read nowhere else, so it is drawn here, like the clock.
WriteBilling ==
    /\ pc = "loop"
    /\ line_count = Len(this_months_data)
    /\ \E name \in UserFilenames :
          /\ user_filename' = name
          /\ IF name = DEFAULT_DEST_CSV_FILENAME
             THEN timestamp' \in Clocks
             ELSE timestamp' = timestamp
          /\ dest_filename' = billing_filename(name, timestamp')
    /\ dest_file' =
         File(write_csv(set_iter(BILLING_HEADERS, hashseed), this_months_data))
    /\ dest_writes' = dest_writes + 1
    /\ pc' = "done"
    /\ UNCHANGED <<source_file, mapping_file, process, history, earlier>>

\* ------------------------------------------------------------------------
\* The operator interrupts the process (KeyboardInterrupt).  The with
\* statement closes an open file on the way out, so the file keeps what
\* has been written to it so far.
\* ------------------------------------------------------------------------
Running == {"start", "mapping", "loop", "map_open", "map_header", "map_rows"}

Interrupt ==
    /\ pc \in Running
    /\ pc' = "interrupted"
    /\ UNCHANGED <<source_file, mapping_file, process, billing, history, earlier>>

Next ==
    \/ LoadSource
    \/ CreateMapping
    \/ LoadMapping
    \/ ConvertKnown
    \/ ConvertPrompt
    \/ MapOpen
    \/ MapHeader
    \/ MapRow
    \/ MapClose
    \/ MapOpenFails
    \/ MapWriteFails
    \/ WriteBilling
    \/ Interrupt

Spec == Init /\ [][Next]_vars

\* ------------------------------------------------------------------------
\* Two invocations in a row: the second starts from the files the first left
\* ------------------------------------------------------------------------
Rerun ==
    /\ pc = "done"
    /\ run = 1
    /\ run' = 2
    /\ hashseed' \in Seeds
    /\ first_dest' = dest_file.data
    /\ first_prompts' = prompts
    /\ pc' = "start"
    /\ dest_file' = NoFile
    /\ dest_filename' = <<>>
    /\ user_filename' = <<>>
    /\ timestamp' = NoClock
    /\ this_months_data' = <<>>
    /\ account_mapping' = EmptyDict
    /\ line_count' = 0
    /\ written' = 0
    /\ prompts' = 0
    /\ rewrites' = 0
    /\ dest_writes' = 0
    /\ loaded' = EmptyDict
    /\ persisted' = {}
    /\ UNCHANGED <<source_file, mapping_file, rt_input>>

NextTwice ==
    \/ LoadSource
    \/ CreateMapping
    \/ LoadMapping
    \/ ConvertKnown
    \/ ConvertPrompt
    \/ MapOpen
    \/ MapHeader
    \/ MapRow
    \/ MapClose
    \/ MapOpenFails
    \/ MapWriteFails
    \/ WriteBilling
    \/ Interrupt
    \/ Rerun

SpecTwice == Init /\ [][NextTwice]_vars

\* ------------------------------------------------------------------------
\* write_csv followed by load_csv(load_as_dict=True), on datasets of
\* mapping rows
\* ------------------------------------------------------------------------
InitRoundTrip ==
    /\ pc = "rt_write"
    /\ Fresh
    /\ source_file = NoFile
    /\ mapping_file = NoFile
    /\ rt_input \in RTDatasets

RoundTripWrite ==
    /\ pc = "rt_write"
    /\ mapping_file' = File(write_csv(set_iter(MAPPING_HEADERS, hashseed), rt_input))
    /\ pc' = "rt_load"
    /\ UNCHANGED <<source_file, process, billing, history, earlier>>

RoundTripLoad ==
    /\ pc = "rt_load"
    /\ account_mapping' = load_csv(mapping_file.data, TRUE)
    /\ pc' = "rt_done"
    /\ UNCHANGED <<source_file, mapping_file, this_months_data, line_count, written>>
    /\ UNCHANGED <<billing, history, earlier>>

NextRoundTrip ==
    \/ RoundTripWrite
    \/ RoundTripLoad

SpecRoundTrip == InitRoundTrip /\ [][NextRoundTrip]_vars

\* ------------------------------------------------------------------------
\* Properties
\* ------------------------------------------------------------------------
\* What a csv reader finds in a file (opened with newline='', so that the
\* text layer changes nothing): its records, and the table they make.
RecordsIn(content) == DictReader(csv_parse(content))
TableIn(content) == load_rows(RecordsIn(content), 1, EmptyDict)
OnDisk == TableIn(mapping_file.data)

NoDuplicates(seq) ==
    \A i, j \in 1..Len(seq) : i # j => seq[i] # seq[j]

\* The row convert_formats takes next, and its identifier
NextRow == this_months_data[line_count + 1]
AtRow == pc = "loop" /\ line_count < Len(this_months_data)

\* C1: an interrupt, at whatever point of the run it comes after a
\* resolution has been persisted, leaves a mapping file on disk that holds
\* an entry for every identifier persisted so far (with the account number
\* the operator gave) and for every identifier the file held when loaded.
InterruptLosesNoMapping ==
    (pc = "interrupted" /\ rewrites >= 1) =>
        \A k \in persisted \cup DOMAIN loaded.val :
            /\ DictHas(OnDisk, k)
            /\ OnDisk.val[k][ACCOUNT_NUMBER] = account_mapping.val[k][ACCOUNT_NUMBER]

\* C2, the step that takes a row whose identifier is not in the table:
\* one prompt, one new entry under that identifier holding the row's
\* Customer ID, Company Name and the operator's text unvalidated, and the
\* row's Account Number is that text.
UnknownRowStep ==
    (AtRow /\ ~DictHas(account_mapping, NextRow[ACCOUNT_KEY]) /\ pc' # "interrupted") =>
        LET n == line_count + 1
            id == NextRow[ACCOUNT_KEY]
            text == this_months_data'[n][ACCOUNT_NUMBER]
        IN  /\ prompts' = prompts + 1
            /\ line_count' = n
            /\ text \in Inputs
            /\ account_mapping'.keys = Append(account_mapping.keys, id)
            /\ DOMAIN account_mapping'.val = DOMAIN account_mapping.val \cup {id}
            /\ \A k \in DOMAIN account_mapping.val :
                  account_mapping'.val[k] = account_mapping.val[k]
            /\ DOMAIN account_mapping'.val[id] = Range(MAPPING_HEADERS)
            /\ account_mapping'.val[id][ACCOUNT_KEY] = id
            /\ account_mapping'.val[id][COMPANY_NAME] = NextRow[COMPANY_NAME]
            /\ account_mapping'.val[id][ACCOUNT_NUMBER] = text

\* C2: a prompt happens only in such a step, once.
PromptOnlyForUnknownRow ==
    prompts' # prompts =>
        /\ AtRow
        /\ ~DictHas(account_mapping, NextRow[ACCOUNT_KEY])
        /\ prompts' = prompts + 1
        /\ line_count' = line_count + 1

\* C2: whenever the next row is about to be taken (or the loop has ended)
\* after a prompt, the file has been rewritten once per prompt and holds
\* exactly the rows of the table, in the table's order.
RewrittenBeforeNextRow ==
    (pc \in {"loop", "done"} /\ prompts >= 1) =>
        /\ rewrites = prompts
        /\ RecordsIn(mapping_file.data) = DictValues(account_mapping)
        /\ OnDisk = account_mapping

\* C2: every row whose identifier is absent from the mapping table gets
\* exactly one prompt, one new table entry (Customer ID, Company Name and
\* the operator's unvalidated text), that text as its Account Number, and
\* the mapping file is rewritten to the table's contents before the next
\* row is taken.
UnknownRowPromptsAndPersists ==
    /\ []RewrittenBeforeNextRow
    /\ [][UnknownRowStep /\ PromptOnlyForUnknownRow]_vars

\* Reached: an empty answer has been stored and persisted, and the loop is
\* ready for the next row.
EmptyAnswerPersisted ==
    /\ pc = "loop"
    /\ prompts >= 1
    /\ \E k \in DOMAIN account_mapping.val :
          /\ ~DictHas(loaded, k)
          /\ account_mapping.val[k][ACCOUNT_NUMBER] = <<>>
          /\ DictHas(OnDisk, k)
          /\ OnDisk.val[k][ACCOUNT_NUMBER] = <<>>

\* C3, the step that takes a row whose identifier is in the table
KnownRowStep ==
    (AtRow /\ DictHas(account_mapping, NextRow[ACCOUNT_KEY]) /\ pc' # "interrupted") =>
        LET n == line_count + 1
        IN  /\ line_count' = n
            /\ this_months_data'[n][ACCOUNT_NUMBER] =
                 account_mapping.val[NextRow[ACCOUNT_KEY]][ACCOUNT_NUMBER]
            /\ prompts' = prompts
            /\ rewrites' = rewrites
            /\ account_mapping' = account_mapping
            /\ mapping_file' = mapping_file
            /\ pc' = "loop"

\* C3: a row whose identifier is already in the mapping table (loaded, or
\* added earlier in the run) gets the table's stored Account Number, with no
\* prompt and no change to the table or to the mapping file.
KnownRowCopiesStoredAccount == [][KnownRowStep]_vars

\* Reached: the second row was resolved from the entry the first row's
\* prompt added.
ResolvedFromEarlierAnswer ==
    /\ pc = "loop"
    /\ line_count = 2
    /\ prompts = 1
    /\ loaded = EmptyDict
    /\ this_months_data[1][ACCOUNT_KEY] = this_months_data[2][ACCOUNT_KEY]
    /\ ACCOUNT_NUMBER \in DOMAIN this_months_data[2]
    /\ this_months_data[2][ACCOUNT_NUMBER] = this_months_data[1][ACCOUNT_NUMBER]

\* C4: a second invocation on the same source, with a mapping table that
\* resolved every row of the first without a prompt, prompts for nothing
\* and writes a billing file with the same content as the first.
RerunWritesSameContent ==
    (run = 2 /\ pc = "done" /\ first_prompts = 0) =>
        /\ prompts = 0
        /\ dest_file.data = first_dest

\* C5: the billing file holds one record per source record, in the source's
\* order; record i has every field of source record i unchanged, plus the
\* Account Number of its identifier.
BillingRowsFollowSource ==
    pc = "done" =>
        LET src == RecordsIn(TextRead(source_file.data))
            out == RecordsIn(dest_file.data)
        IN  /\ Len(out) = Len(src)
            /\ \A i \in 1..Len(src) :
                  /\ DOMAIN out[i] = DOMAIN src[i] \cup {ACCOUNT_NUMBER}
                  /\ \A f \in DOMAIN src[i] : out[i][f] = src[i][f]
                  /\ out[i][ACCOUNT_NUMBER] =
                       account_mapping.val[src[i][ACCOUNT_KEY]][ACCOUNT_NUMBER]

\* Reached: a billing file for two source rows of one customer.
BillingWrittenForSharedId ==
    /\ pc = "done"
    /\ Len(this_months_data) = 2
    /\ this_months_data[1][ACCOUNT_KEY] = this_months_data[2][ACCOUNT_KEY]
    /\ this_months_data[1][<<"No">>] # this_months_data[2][<<"No">>]
    /\ Len(RecordsIn(dest_file.data)) = 2

\* A mapping table as a dataset: rows of exactly the three mapping fields,
\* no identifier twice.
IsMappingTable(dataset) ==
    /\ \A i \in 1..Len(dataset) : DOMAIN dataset[i] = Range(MAPPING_HEADERS)
    /\ NoDuplicates([i \in 1..Len(dataset) |-> dataset[i][ACCOUNT_KEY]])

\* C6: writing a mapping table with write_csv and reloading it with
\* load_csv(load_as_dict=True) gives the same keys and, per key, the same
\* three field values.
RoundTripPreservesTable ==
    (pc = "rt_done" /\ IsMappingTable(rt_input)) =>
        /\ DOMAIN account_mapping.val = {rt_input[i][ACCOUNT_KEY] : i \in 1..Len(rt_input)}
        /\ \A i \in 1..Len(rt_input) :
              account_mapping.val[rt_input[i][ACCOUNT_KEY]] = rt_input[i]

\* C7: loading as a dict gives one entry per identifier of the file, equal
\* to the last row of the file with that identifier; rows sharing an
\* identifier are no error.
LastDuplicateWins ==
    pc = "rt_done" =>
        LET rows == RecordsIn(TextRead(mapping_file.data))
            ids == {rows[i][ACCOUNT_KEY] : i \in 1..Len(rows)}
        IN  /\ DOMAIN account_mapping.val = ids
            /\ Range(account_mapping.keys) = ids
            /\ NoDuplicates(account_mapping.keys)
            /\ \A i \in 1..Len(rows) :
                  (\A j \in (i + 1)..Len(rows) : rows[j][ACCOUNT_KEY] # rows[i][ACCOUNT_KEY])
                      => account_mapping.val[rows[i][ACCOUNT_KEY]] = rows[i]

\* Reached: a file whose two rows share an identifier and differ was loaded.
DuplicateRowsLoaded ==
    /\ pc = "rt_done"
    /\ Len(rt_input) = 2
    /\ rt_input[1][ACCOUNT_KEY] = rt_input[2][ACCOUNT_KEY]
    /\ rt_input[1][ACCOUNT_NUMBER] # rt_input[2][ACCOUNT_NUMBER]
    /\ Len(account_mapping.keys) = 1
    /\ account_mapping.val[rt_input[2][ACCOUNT_KEY]][ACCOUNT_NUMBER] =
         rt_input[2][ACCOUNT_NUMBER]

DigitValue(c) == CHOOSE n \in 0..9 : DigitOf(n) = c
IsDigit(c) == \E n \in 0..9 : DigitOf(n) = c
RECURSIVE Decimal(_)
Decimal(digits) ==
    IF digits = <<>> THEN 0
    ELSE 10 * Decimal(SubSeq(digits, 1, Len(digits) - 1)) + DigitValue(digits[Len(digits)])

IdsTaken == {this_months_data[i][ACCOUNT_KEY] : i \in 1..line_count}

\* C9: the table has one entry per identifier, under its own identifier;
\* what was loaded is still there unchanged; and when the loop is between
\* rows or over, the prompts and the rewrites both number the distinct
\* identifiers taken so far that the loaded table lacked.
TableInvariant ==
    /\ NoDuplicates(account_mapping.keys)
    /\ Range(account_mapping.keys) = DOMAIN account_mapping.val
    /\ \A k \in DOMAIN account_mapping.val : account_mapping.val[k][ACCOUNT_KEY] = k
    /\ \A k \in DOMAIN loaded.val :
          DictHas(account_mapping, k) /\ account_mapping.val[k] = loaded.val[k]
    /\ pc \in {"loop", "done"} =>
          /\ prompts = Cardinality(IdsTaken \ DOMAIN loaded.val)
          /\ rewrites = prompts
          /\ DOMAIN account_mapping.val = DOMAIN loaded.val \cup IdsTaken
    /\ pc = "done" => line_count = Len(this_months_data)

\* C9: once the table is loaded, no step removes or changes an entry, and
\* a step adds at most one.
TableStep ==
    pc \notin {"start", "mapping"} =>
        /\ \A k \in DOMAIN account_mapping.val :
              /\ k \in DOMAIN account_mapping'.val
              /\ account_mapping'.val[k] = account_mapping.val[k]
        /\ Len(account_mapping'.keys) <= Len(account_mapping.keys) + 1

\* C9: during a run the mapping table only grows: no key is lost, no entry
\* changes, there is one entry per identifier, each identifier is added at
\* most once, and prompts and rewrites number the distinct source
\* identifiers the loaded table lacked.
TableGrowsMonotonically == []TableInvariant /\ [][TableStep]_vars

\* Reached: two rows of one unknown customer, one prompt, run complete.
OnePromptForTwoRows ==
    /\ pc = "done"
    /\ Len(this_months_data) = 2
    /\ this_months_data[1][ACCOUNT_KEY] = this_months_data[2][ACCOUNT_KEY]
    /\ loaded = EmptyDict
    /\ prompts = 1
    /\ rewrites = 1

\* C10: when persisting the mapping file fails the run halts with no
\* billing file written, and the mappings persisted for earlier records are
\* still on disk.
FailureKeepsEarlierMappings ==
    pc = "failed" =>
        /\ ~dest_file.exists
        /\ dest_writes = 0
        /\ \A k \in persisted :
              /\ DictHas(OnDisk, k)
              /\ OnDisk.val[k][ACCOUNT_NUMBER] = account_mapping.val[k][ACCOUNT_NUMBER]

\* The part of C10 that does not depend on the file's content: after the
\* failure nothing more happens and no billing file exists.
FailureHalts ==
    pc = "failed" => (~dest_file.exists /\ dest_writes = 0 /\ ~ENABLED Next)
====
